---- MODULE Spec2Model ----
(***************************************************************************)
(* vault-mcp: the Vault access client (HttpVaultClient) and the MCP tool   *)
(* and resource handlers built on it (src/src/index.ts), run against a     *)
(* KV v2 / ACL-policy remote.                                              *)
(*                                                                         *)
(* Strings are sequences of tokens ("secret", "/", "data", "a", ...), so   *)
(* that template literals are concatenations and startsWith / endsWith /   *)
(* substring / slice are computed on them.  JSON values are tagged         *)
(* records.  One server runs one handler at a time; every HTTP exchange    *)
(* is one atomic step of the remote, and a second client may write to the  *)
(* remote between any two exchanges.                                       *)
(***************************************************************************)
EXTENDS Integers, Sequences, FiniteSets, TLC

\* ------------------------------------------------------------------ bounds

\* at most this many secret versions are ever stored on the remote
MaxWrites == 2
\* longest path handed to list() in the list-normalisation specification
MaxListLen == 3

\* ------------------------------------------------------------ string helpers

StartsWith(s, pre) == Len(s) >= Len(pre) /\ SubSeq(s, 1, Len(pre)) = pre
EndsWith(s, tok) == Len(s) >= 1 /\ s[Len(s)] = tok
\* s.substring(n)
Substring(s, n) == SubSeq(s, n + 1, Len(s))
\* s.slice(0, -1)
SliceDropLast(s) == SubSeq(s, 1, Len(s) - 1)

RECURSIVE Join(_, _)
\* Array.prototype.join(sep) on an array of strings, giving a string
Join(arr, sep) ==
    IF Len(arr) = 0 THEN <<>>
    ELSE IF Len(arr) = 1 THEN arr[1]
    ELSE arr[1] \o sep \o Join(Tail(arr), sep)

\* ---------------------------------------------------------------- JSON values

Undefined == [t |-> "undefined"]
JNull == [t |-> "null"]
JStr(s) == [t |-> "string", v |-> s]
JNum(n) == [t |-> "number", v |-> n]
JArr(items) == [t |-> "array", v |-> items]
\* an object is the sequence of its <<key, value>> entries, in insertion order
JObj(entries) == [t |-> "object", v |-> entries]

IsObj(j) == j.t = "object"
HasKey(j, k) == IsObj(j) /\ \E i \in 1..Len(j.v) : j.v[i][1] = k
\* property access j.k: undefined when the key is absent
Get(j, k) ==
    IF HasKey(j, k)
    THEN j.v[CHOOSE i \in 1..Len(j.v) : j.v[i][1] = k][2]
    ELSE Undefined
\* x ?? d
Nullish(x, d) == IF x.t \in {"undefined", "null"} THEN d ELSE x
\* Falsy taking only a missing value for falsy, so that 0 counts as a version
Falsy_OnlyMissing(x) == x.t \in {"undefined", "null"}
\* !x for the values a version field can hold
Falsy(x) == x.t \in {"undefined", "null"} \/ (x.t = "number" /\ x.v = 0)

RECURSIVE DropUndefined(_)
DropUndefined(entries) ==
    IF Len(entries) = 0 THEN <<>>
    ELSE IF entries[1][2].t = "undefined" THEN DropUndefined(Tail(entries))
    ELSE <<entries[1]>> \o DropUndefined(Tail(entries))

RECURSIVE Normal(_)
\* the value a JSON text denotes: JSON.stringify leaves out the keys whose value
\* is undefined and writes undefined array items as null
Normal(j) ==
    IF j.t = "object"
    THEN LET kept == DropUndefined(j.v)
         IN JObj([i \in 1..Len(kept) |-> <<kept[i][1], Normal(kept[i][2])>>])
    ELSE IF j.t = "array"
    THEN JArr([i \in 1..Len(j.v) |->
                  IF j.v[i].t = "undefined" THEN JNull ELSE Normal(j.v[i])])
    ELSE j

\* JSON.stringify(j): a text, or undefined for undefined
JsonStringify(j) ==
    IF j.t = "undefined" THEN Undefined ELSE [t |-> "text", json |-> Normal(j)]
\* JSON.parse / response.json() of a text produced by a JSON encoder
JsonParse(text) == text.json

\* ------------------------------------------------------------------- inputs

\* relative secret paths the tools are called with
RelPaths == {<<"a">>, <<"b">>}
KeyOrder == <<(<<"a">>), (<<"b">>)>>
\* secret payloads (z.record(z.unknown()))
Payloads == {JObj(<<>>), JObj(<< <<"username", JStr(<<"demo">>)>> >>)}
PolicyNames == {<<"app">>, <<"weird", " ", "name", "/", "with", ":", "chars">>}
PolicyTexts == {<<"hcl1">>, <<"hcl2">>}
\* VAULT_ADDR as configured, with and without a trailing slash
VaultAddrs == {<<"http://vault:8200">>, <<"http://vault:8200", "/">>}
VaultToken == <<"hvs.token">>

DataPrefix == <<"secret", "/", "data", "/">>
MetadataPrefix == <<"secret", "/", "metadata", "/">>
DeletePrefix == <<"secret", "/", "delete", "/">>
MetadataRoot == <<"secret", "/", "metadata">>
PolicyPrefix == <<"sys", "/", "policies", "/", "acl", "/">>
PolicyRoot == <<"sys", "/", "policies", "/", "acl">>
ListQuery == "?list=true"

\* encodeURIComponent, token by token
EncodeToken(tok) ==
    IF tok = "/" THEN "%2F"
    ELSE IF tok = ":" THEN "%3A"
    ELSE IF tok = " " THEN "%20"
    ELSE tok
EncodeURIComponent(s) == [i \in 1..Len(s) |-> EncodeToken(s[i])]

\* -------------------------------------------------------------------- state

VARIABLES
    baseUrl,        \* HttpVaultClient.baseUrl
    token,          \* HttpVaultClient.token
    kv,             \* remote: key -> the secret's versions, oldest first
    policies,       \* remote: policy name -> policy text, or NoPolicy
    op,             \* the handler that is running, or "none"
    args,           \* its arguments
    pc,             \* where it is: idle, an await, or done
    sent,           \* the fetch calls it has issued so far
    received,       \* the responses those fetch calls have got so far
    currentVersion, \* delete's local currentVersion
    outcome,        \* what the handler returned or threw
    listed,         \* the previous list(p) call: its p and its request
    written         \* key -> the data of the last write the remote accepted,
                    \* and who sent it: this server, another client, or another
                    \* client while this server's delete of the key was between
                    \* its metadata read and its soft delete ("racer")

vars == <<baseUrl, token, kv, policies, op, args, pc, sent, received,
          currentVersion, outcome, listed, written>>

NoPolicy == <<>>
NoArgs == [path |-> <<>>, data |-> Undefined, name |-> <<>>, policy |-> <<>>]
NoOutcome == [kind |-> "none", isError |-> FALSE, text |-> Undefined]
NoListed == [path |-> <<>>, req |-> Undefined]
NoWrite == [data |-> Undefined, by |-> "nobody"]

\* ------------------------------------------------------------ the remote

TotalVersions == Len(kv[KeyOrder[1]]) + Len(kv[KeyOrder[2]])

Response(status, body) == [net |-> "ok", status |-> status, body |-> body]
\* fetch rejects: connection refused, DNS, timeout
NetworkFailure == [net |-> "failed", status |-> 0, body |-> Undefined]
\* a body response.json() cannot parse
Unparseable == [t |-> "garbage"]
ErrorBody(errors) ==
    JsonStringify(JObj(<< <<"errors",
                            JArr([i \in 1..Len(errors) |-> JStr(errors[i])])>> >>))
\* the answers that leave the remote as it is: any request may get one
Failures ==
    { Response(403, ErrorBody(<< <<"permission denied">> >>)),
      Response(400, ErrorBody(<< <<"invalid">>, <<"bad request">> >>)),
      Response(500, Unparseable),
      NetworkFailure }
NotFound == Response(404, ErrorBody(<<>>))
NoContent == Response(204, Undefined)
Ok(json) == Response(200, JsonStringify(json))

\* the response is an HTTP answer with a 2xx status
Succeeded(resp) == resp.net = "ok" /\ resp.status >= 200 /\ resp.status <= 299
\* the response is a non-2xx status, or the transport failed
Failed(resp) == ~Succeeded(resp)

Reply(resp, newKv, newPolicies) ==
    [resp |-> resp, kv |-> newKv, policies |-> newPolicies]
Same(resp) == Reply(resp, kv, policies)

\* POST secret/data/<key> {data}: a new version holding data
RemoteWrite(key, body) ==
    IF key \in RelPaths /\ TotalVersions < MaxWrites
    THEN { Reply(Ok(JObj(<< <<"data",
                     JObj(<< <<"version", JNum(Len(kv[key]) + 1)>> >>)>> >>)),
                 [kv EXCEPT ![key] = Append(@, [data |-> Get(body, "data"),
                                                deleted |-> FALSE])],
                 policies) }
    ELSE {}

\* GET secret/data/<key>: the latest version, unless there is none or it is deleted
RemoteRead(key) ==
    IF key \in RelPaths /\ Len(kv[key]) > 0 /\ ~kv[key][Len(kv[key])].deleted
    THEN { Same(Ok(JObj(<< <<"data", JObj(<<
                 <<"data", kv[key][Len(kv[key])].data>>,
                 <<"metadata", JObj(<< <<"version", JNum(Len(kv[key]))>> >>)>>
               >>)>> >>))),
           Same(NoContent) }
    ELSE { Same(NotFound) }

\* GET secret/metadata/<key>: current_version; an entry without versions reports
\* 0 or is not found, and the field may be missing altogether
RemoteMetadata(key) ==
    IF key \in RelPaths /\ Len(kv[key]) > 0
    THEN { Same(Ok(JObj(<< <<"data", JObj(<<
                 <<"current_version", JNum(Len(kv[key]))>> >>)>> >>))),
           Same(Ok(JObj(<< <<"data", JObj(<<>>)>> >>))),
           Same(NoContent) }
    ELSE { Same(NotFound),
           Same(Ok(JObj(<< <<"data", JObj(<<
                 <<"current_version", JNum(0)>> >>)>> >>))),
           Same(Ok(JObj(<< <<"data", JObj(<<>>)>> >>))) }

\* the version numbers of a {versions: [...]} body
VersionsOf(body) ==
    LET arr == Get(body, "versions")
    IN IF arr.t = "array" THEN {arr.v[i].v : i \in 1..Len(arr.v)} ELSE {}

\* POST secret/delete/<key> {versions}: marks those versions deleted, keeps them
RemoteSoftDelete(key, body) ==
    IF key \in RelPaths
    THEN { Reply(NoContent,
                 [kv EXCEPT ![key] = [i \in 1..Len(@) |->
                     IF i \in VersionsOf(body)
                     THEN [@[i] EXCEPT !.deleted = TRUE] ELSE @[i]]],
                 policies) }
    ELSE { Same(NotFound) }

\* DELETE secret/metadata/<key>: removes every version and the history
RemoteMetadataDelete(key) ==
    IF key \in RelPaths
    THEN { Reply(NoContent, [kv EXCEPT ![key] = <<>>], policies) }
    ELSE { Same(NotFound) }

RECURSIVE KeysFrom(_)
KeysFrom(i) ==
    IF i > Len(KeyOrder) THEN <<>>
    ELSE (IF Len(kv[KeyOrder[i]]) > 0 THEN <<JStr(KeyOrder[i])>> ELSE <<>>)
         \o KeysFrom(i + 1)

\* GET secret/metadata?list=true: the keys, not found while the mount is empty
RemoteList ==
    IF TotalVersions > 0
    THEN { Same(Ok(JObj(<< <<"data", JObj(<< <<"keys", JArr(KeysFrom(1))>> >>)>> >>))),
           Same(Ok(JObj(<< <<"data", JObj(<<>>)>> >>))),
           Same(Response(200, Unparseable)),
           Same(NoContent) }
    ELSE { Same(NotFound), Same(NoContent) }

\* PUT sys/policies/acl/<name> {policy}: replaces the document under that name
RemotePutPolicy(encoded, body) ==
    { Reply(NoContent, kv,
            [n \in PolicyNames |->
                IF EncodeURIComponent(n) = encoded
                THEN Get(body, "policy").v ELSE policies[n]]) }

PolicyOrder == <<(<<"app">>), (<<"weird", " ", "name", "/", "with", ":", "chars">>)>>

RECURSIVE PolicyKeysFrom(_)
PolicyKeysFrom(i) ==
    IF i > Len(PolicyOrder) THEN <<>>
    ELSE (IF policies[PolicyOrder[i]] # NoPolicy
          THEN <<JStr(PolicyOrder[i])>> ELSE <<>>)
         \o PolicyKeysFrom(i + 1)

\* GET sys/policies/acl: the names that hold a document
RemoteListPolicies ==
    { Same(Ok(JObj(<< <<"data",
          JObj(<< <<"keys", JArr(PolicyKeysFrom(1))>> >>)>> >>))) }

\* the relative API path of a URL of this client
ApiPathOf(url) == Substring(url, Len(baseUrl) + 1)

\* what the remote may answer to a fetch, and the state it is then in
RemoteReplies(req) ==
    LET api == ApiPathOf(req.url)
        body == IF req.body.t = "text" THEN JsonParse(req.body) ELSE Undefined
        answers ==
          IF req.method = "POST" /\ StartsWith(api, DataPrefix)
            THEN RemoteWrite(Substring(api, Len(DataPrefix)), body)
          ELSE IF req.method = "GET" /\ StartsWith(api, DataPrefix)
            THEN RemoteRead(Substring(api, Len(DataPrefix)))
          ELSE IF req.method = "GET" /\ EndsWith(api, ListQuery)
            THEN (IF api = MetadataRoot \o <<ListQuery>>
                  THEN RemoteList ELSE { Same(NotFound) })
          ELSE IF req.method = "GET" /\ StartsWith(api, MetadataPrefix)
            THEN RemoteMetadata(Substring(api, Len(MetadataPrefix)))
          ELSE IF req.method = "DELETE" /\ StartsWith(api, MetadataPrefix)
            THEN RemoteMetadataDelete(Substring(api, Len(MetadataPrefix)))
          ELSE IF req.method = "POST" /\ StartsWith(api, DeletePrefix)
            THEN RemoteSoftDelete(Substring(api, Len(DeletePrefix)), body)
          ELSE IF req.method = "PUT" /\ StartsWith(api, PolicyPrefix)
            THEN RemotePutPolicy(Substring(api, Len(PolicyPrefix)), body)
          ELSE IF req.method = "GET" /\ api = PolicyRoot
            THEN RemoteListPolicies
          ELSE { Same(NotFound) }
    \* besides a failure that changes nothing and the route's own answers: the
    \* remote did its part and the response was lost on the way back
    IN  { Same(f) : f \in Failures } \cup answers \cup
        { Reply(NetworkFailure, a.kv, a.policies) : a \in answers }

\* ------------------------------------------------- HttpVaultClient.request

NoError == [name |-> "", message |-> <<>>]
Error(message) == [name |-> "Error", message |-> message]
TypeError(message) == [name |-> "TypeError", message |-> message]
SyntaxError(message) == [name |-> "SyntaxError", message |-> message]
\* String(err)
ErrString(err) == [t |-> "string", v |-> <<err.name, ": ">> \o err.message]

Returns(value) == [thrown |-> FALSE, value |-> value, error |-> NoError]
Throws(err) == [thrown |-> TRUE, value |-> Undefined, error |-> err]

\* the constructor's baseUrl.replace(/\/$/, "")
StripTrailingSlash(addr) == IF EndsWith(addr, "/") THEN SliceDropLast(addr) ELSE addr

\* the fetch call of request(method, apiPath, body)
Fetch(method, apiPath, body) ==
    [method |-> method,
     url |-> baseUrl \o <<"/v1/">> \o apiPath,
     token |-> token,
     body |-> IF body.t = "undefined" THEN Undefined ELSE JsonStringify(body)]

ResponseOk(resp) == resp.status >= 200 /\ resp.status <= 299

\* the errors of an error body, when it parses and has a non-empty list
RemoteErrors(resp) ==
    IF resp.body.t = "text" /\ Get(JsonParse(resp.body), "errors").t = "array"
    THEN LET arr == Get(JsonParse(resp.body), "errors").v
         IN [i \in 1..Len(arr) |-> arr[i].v]
    ELSE <<>>

\* FailureMessage with the remote errors joined by ", "
FailureMessage_CommaJoined(method, apiPath, resp) ==
    <<method, " ">> \o apiPath \o <<" failed with ", ToString(resp.status)>>
    \o (IF Len(RemoteErrors(resp)) > 0
        THEN <<": ">> \o Join(RemoteErrors(resp), <<", ">>)
        ELSE <<>>)
FailureMessage(method, apiPath, resp) ==
    <<method, " ">> \o apiPath \o <<" failed with ", ToString(resp.status)>>
    \o (IF Len(RemoteErrors(resp)) > 0
        THEN <<": ">> \o Join(RemoteErrors(resp), <<"; ">>)
        ELSE <<>>)

\* what request(method, apiPath, body) does with the response to its fetch
request(method, apiPath, resp) ==
    IF resp.net = "failed" THEN Throws(TypeError(<<"fetch failed">>))
    ELSE IF ~ResponseOk(resp) THEN Throws(Error(FailureMessage(method, apiPath, resp)))
    ELSE IF resp.status = 204 THEN Returns(Undefined)
    ELSE IF resp.body.t = "text" THEN Returns(JsonParse(resp.body))
    ELSE Throws(SyntaxError(<<"Unexpected end of JSON input">>))

\* ------------------------------------------- HttpVaultClient's operations

\* write(path, payload): its one request
write(path, payload) == Fetch("POST", path, payload)
\* readKv2(path): its one request
readKv2(path) == Fetch("GET", path, Undefined)

RECURSIVE listPath_StripAll(_)
\* listPath stripping every trailing separator
listPath_StripAll(path) ==
    IF EndsWith(path, "/") THEN listPath_StripAll(SliceDropLast(path)) ELSE path

\* list(path): the path without one trailing separator
listPath(path) == IF EndsWith(path, "/") THEN SliceDropLast(path) ELSE path
\* list(path): its one request
list(path) == Fetch("GET", listPath(path) \o <<ListQuery>>, Undefined)

\* addPolicy with the name put into the path as it is, not encoded
addPolicy_RawName(name, policy) ==
    Fetch("PUT", PolicyPrefix \o name,
          JObj(<< <<"policy", JStr(policy)>> >>))
\* sys.addPolicy({name, policy}): its one request
addPolicy(name, policy) ==
    Fetch("PUT", PolicyPrefix \o EncodeURIComponent(name),
          JObj(<< <<"policy", JStr(policy)>> >>))
\* sys.listPolicies(): its one request
listPolicies == Fetch("GET", PolicyRoot, Undefined)

\* DeleteIsKv2 taking every path under the secret mount for a KV v2 data path
DeleteIsKv2_MountOnly(path) == StartsWith(path, <<"secret", "/">>)
\* delete(path): whether it takes the KV v2 branch
DeleteIsKv2(path) == StartsWith(path, DataPrefix)
DeleteRelative(path) == Substring(path, Len(DataPrefix))
\* DeleteFirst deleting the metadata of the path outright
DeleteFirst_MetadataDelete(path) ==
    IF DeleteIsKv2(path)
    THEN Fetch("DELETE", MetadataPrefix \o DeleteRelative(path), Undefined)
    ELSE Fetch("DELETE", path, Undefined)

\* delete(path): its first request
DeleteFirst(path) ==
    IF DeleteIsKv2(path)
    THEN Fetch("GET", MetadataPrefix \o DeleteRelative(path), Undefined)
    ELSE Fetch("DELETE", path, Undefined)

\* delete(path): (meta.data as {...}).current_version of the metadata it read;
\* reading a property of undefined throws
DeleteCurrentVersion(meta) ==
    IF meta.t \in {"undefined", "null"}
    THEN Throws(TypeError(<<"Cannot read properties of undefined">>))
    ELSE IF Get(meta, "data").t \in {"undefined", "null"}
    THEN Throws(TypeError(<<"Cannot read properties of undefined">>))
    ELSE Returns(Get(Get(meta, "data"), "current_version"))

\* DeleteSecond sending the first version instead of the one it read
DeleteSecond_FirstVersion(path, meta) ==
    LET cv == DeleteCurrentVersion(meta)
    IN IF cv.thrown THEN [thrown |-> TRUE, error |-> cv.error, req |-> Undefined]
       ELSE IF Falsy(cv.value)
       THEN [thrown |-> TRUE,
             error |-> Error(<<"No current_version found for secret">>),
             req |-> Undefined]
       ELSE [thrown |-> FALSE, error |-> NoError,
             req |-> Fetch("POST", DeletePrefix \o DeleteRelative(path),
                           JObj(<< <<"versions", JArr(<<JNum(1)>>)>> >>))]

\* DeleteSecond falling back to DELETE secret/metadata/<rel> when it finds no version
DeleteSecond_MetadataFallback(path, meta) ==
    LET cv == DeleteCurrentVersion(meta)
    IN IF cv.thrown THEN [thrown |-> TRUE, error |-> cv.error, req |-> Undefined]
       ELSE IF Falsy(cv.value)
       THEN [thrown |-> FALSE, error |-> NoError,
             req |-> Fetch("DELETE", MetadataPrefix \o DeleteRelative(path),
                           Undefined)]
       ELSE [thrown |-> FALSE, error |-> NoError,
             req |-> Fetch("POST", DeletePrefix \o DeleteRelative(path),
                           JObj(<< <<"versions", JArr(<<cv.value>>)>> >>))]

\* delete(path): after the metadata read returned meta, the soft-delete request,
\* or the error thrown instead
DeleteSecond(path, meta) ==
    LET cv == DeleteCurrentVersion(meta)
    IN IF cv.thrown THEN [thrown |-> TRUE, error |-> cv.error, req |-> Undefined]
       ELSE IF Falsy(cv.value)
       THEN [thrown |-> TRUE,
             error |-> Error(<<"No current_version found for secret">>),
             req |-> Undefined]
       ELSE [thrown |-> FALSE, error |-> NoError,
             req |-> Fetch("POST", DeletePrefix \o DeleteRelative(path),
                           JObj(<< <<"versions", JArr(<<cv.value>>)>> >>))]

\* ------------------------------------------------------------- the handlers

\* a template literal `${prefix}${subject}\n${tail}`
Text(prefix, subject, tail) == [prefix |-> prefix, subject |-> subject, tail |-> tail]
\* the handler returned {content: [{type: "text", text}]}
ToolOk(text) == [kind |-> "result", isError |-> FALSE, text |-> text]
\* the handler returned {isError: true, content: [{type: "text", text}]}
ToolError(text) == [kind |-> "result", isError |-> TRUE, text |-> text]
\* the handler's promise rejected: the error left the handler
Escaped(err) == [kind |-> "thrown", isError |-> FALSE, text |-> ErrString(err)]

Init ==
    /\ \E addr \in VaultAddrs : baseUrl = StripTrailingSlash(addr)
    /\ token = VaultToken
    /\ kv = [k \in RelPaths |-> <<>>]
    /\ policies = [n \in PolicyNames |-> NoPolicy]
    /\ op = "none"
    /\ args = NoArgs
    /\ pc = "idle"
    /\ sent = <<>>
    /\ received = <<>>
    /\ currentVersion = Undefined
    /\ outcome = NoOutcome
    /\ listed = NoListed
    /\ written = [k \in RelPaths |-> NoWrite]

\* the handler starts and runs to its first await
Start(name, a, req, at) ==
    /\ pc = "idle"
    /\ op' = name
    /\ args' = a
    /\ sent' = <<req>>
    /\ pc' = at
    /\ UNCHANGED <<baseUrl, token, kv, policies, received, currentVersion,
                   outcome, listed, written>>

\* the handler ends with outcome o
Finish(o) ==
    /\ outcome' = o
    /\ pc' = "done"
    /\ UNCHANGED <<baseUrl, token, op, args, sent, currentVersion, listed>>

\* the remote takes the pending fetch and answers rep
Exchange(rep) ==
    /\ kv' = rep.kv
    /\ policies' = rep.policies
    /\ received' = Append(received, rep.resp)

Pending == sent[Len(sent)]

\* create_secret: no try/catch around the write
CreateSecretOutcome(path, r) ==
    IF r.thrown THEN Escaped(r.error)
    ELSE ToolOk(Text("Secret written at: ", path, JsonStringify(r.value)))

CreateSecretCall(path, data) ==
    Start("create_secret", [NoArgs EXCEPT !.path = path, !.data = data],
          write(DataPrefix \o path, JObj(<< <<"data", data>> >>)), "await")

CreateSecretResp ==
    /\ pc = "await" /\ op = "create_secret"
    /\ \E rep \in RemoteReplies(Pending) :
          /\ Exchange(rep)
          /\ written' = IF rep.kv # kv
                        THEN [written EXCEPT ![args.path] =
                                 [data |-> args.data, by |-> "server"]]
                        ELSE written
          /\ Finish(CreateSecretOutcome(args.path,
                       request("POST", DataPrefix \o args.path, rep.resp)))

\* ReadSecretPayload taking the envelope's data instead of data.data
ReadSecretPayload_Envelope(result) ==
    IF result.t \in {"undefined", "null"}
    THEN Throws(TypeError(<<"Cannot read properties of undefined">>))
    ELSE Returns(Nullish(Get(result, "data"), JObj(<<>>)))

\* read_secret: result.data?.data ?? {} of what readKv2 returned
ReadSecretPayload(result) ==
    IF result.t \in {"undefined", "null"}
    THEN Throws(TypeError(<<"Cannot read properties of undefined">>))
    ELSE IF Get(result, "data").t \in {"undefined", "null"}
    THEN Returns(JObj(<<>>))
    ELSE Returns(Nullish(Get(Get(result, "data"), "data"), JObj(<<>>)))

ReadSecretOutcome(path, r) ==
    IF r.thrown
    THEN ToolError(Text("Failed to read secret at: ", path, ErrString(r.error)))
    ELSE IF ReadSecretPayload(r.value).thrown
    THEN ToolError(Text("Failed to read secret at: ", path,
                        ErrString(ReadSecretPayload(r.value).error)))
    ELSE ToolOk(Text("Secret read at: ", path,
                     JsonStringify(ReadSecretPayload(r.value).value)))

ReadSecretCall(path) ==
    Start("read_secret", [NoArgs EXCEPT !.path = path],
          readKv2(DataPrefix \o path), "await")

\* ReadSecretResp with a request() that fetches once more after a failure
ReadSecretResp_Retry ==
    /\ pc = "await" /\ op = "read_secret"
    /\ \E rep \in RemoteReplies(Pending) :
          /\ Exchange(rep)
          /\ IF Failed(rep.resp) /\ Len(sent) = 1
             THEN /\ sent' = Append(sent, Pending)
                  /\ UNCHANGED <<baseUrl, token, op, args, pc, currentVersion,
                                 outcome, listed>>
             ELSE Finish(ReadSecretOutcome(args.path,
                            request("GET", DataPrefix \o args.path, rep.resp)))
    /\ UNCHANGED written

ReadSecretResp ==
    /\ pc = "await" /\ op = "read_secret"
    /\ \E rep \in RemoteReplies(Pending) :
          /\ Exchange(rep)
          /\ Finish(ReadSecretOutcome(args.path,
                       request("GET", DataPrefix \o args.path, rep.resp)))
    /\ UNCHANGED written

\* delete_secret: every error of delete becomes an error result
DeleteSecretFailed(path, err) ==
    ToolError(Text("Failed to delete secret at: ", path, ErrString(err)))

DeleteSecretOutcome(path, r) ==
    IF r.thrown THEN DeleteSecretFailed(path, r.error)
    ELSE ToolOk(Text("Secret deleted at: ", path, JsonStringify(r.value)))

DeleteSecretCall(path) ==
    Start("delete_secret", [NoArgs EXCEPT !.path = path],
          DeleteFirst(DataPrefix \o path),
          IF DeleteIsKv2(DataPrefix \o path) THEN "await_meta" ELSE "await")

\* DeleteMetadataResp going on to the soft delete although the read failed
DeleteMetadataResp_IgnoresFailure ==
    /\ pc = "await_meta" /\ op = "delete_secret"
    /\ \E rep \in RemoteReplies(Pending) :
          LET r == request("GET", MetadataPrefix \o args.path, rep.resp)
              second == DeleteSecond(DataPrefix \o args.path, r.value)
          IN /\ Exchange(rep)
             /\ IF r.thrown
                THEN /\ sent' = Append(sent,
                            Fetch("POST", DeletePrefix \o args.path,
                                  JObj(<< <<"versions", JArr(<<JNum(1)>>)>> >>)))
                     /\ currentVersion' = JNum(1)
                     /\ pc' = "await_soft"
                     /\ UNCHANGED <<baseUrl, token, op, args, outcome, listed>>
                ELSE IF second.thrown
                THEN Finish(DeleteSecretFailed(args.path, second.error))
                ELSE /\ sent' = Append(sent, second.req)
                     /\ currentVersion' = DeleteCurrentVersion(r.value).value
                     /\ pc' = "await_soft"
                     /\ UNCHANGED <<baseUrl, token, op, args, outcome, listed>>
    /\ UNCHANGED written

\* delete, step 1 answered: the metadata read returns or throws, and on a usable
\* version the soft-delete request goes out
DeleteMetadataResp ==
    /\ pc = "await_meta" /\ op = "delete_secret"
    /\ \E rep \in RemoteReplies(Pending) :
          LET r == request("GET", MetadataPrefix \o args.path, rep.resp)
              second == DeleteSecond(DataPrefix \o args.path, r.value)
          IN /\ Exchange(rep)
             /\ IF r.thrown
                THEN Finish(DeleteSecretFailed(args.path, r.error))
                ELSE IF second.thrown
                THEN Finish(DeleteSecretFailed(args.path, second.error))
                ELSE /\ sent' = Append(sent, second.req)
                     /\ currentVersion' = DeleteCurrentVersion(r.value).value
                     /\ pc' = "await_soft"
                     /\ UNCHANGED <<baseUrl, token, op, args, outcome, listed>>
    /\ UNCHANGED written

\* DeleteLastResp re-checking the version first and giving up when it has moved
DeleteLastResp_Recheck ==
    /\ pc \in {"await_soft", "await"} /\ op = "delete_secret"
    /\ IF pc = "await_soft" /\ Len(kv[args.path]) # currentVersion.v
       THEN /\ Finish(DeleteSecretFailed(args.path, Error(<<"version moved">>)))
            /\ UNCHANGED <<kv, policies, received>>
       ELSE \E rep \in RemoteReplies(Pending) :
              /\ Exchange(rep)
              /\ Finish(DeleteSecretOutcome(args.path,
                           request(Pending.method, ApiPathOf(Pending.url), rep.resp)))
    /\ UNCHANGED written

\* delete, step 2 answered (or the raw DELETE of a path outside secret/data/)
DeleteLastResp ==
    /\ pc \in {"await_soft", "await"} /\ op = "delete_secret"
    /\ \E rep \in RemoteReplies(Pending) :
          /\ Exchange(rep)
          /\ Finish(DeleteSecretOutcome(args.path,
                       request(Pending.method, ApiPathOf(Pending.url), rep.resp)))
    /\ UNCHANGED written

CreatePolicyOutcome(name, r) ==
    IF r.thrown
    THEN ToolError(Text("Failed to create policy '", name, ErrString(r.error)))
    ELSE ToolOk(Text("Policy '", name, JsonStringify(r.value)))

CreatePolicyCall(name, policy) ==
    Start("create_policy", [NoArgs EXCEPT !.name = name, !.policy = policy],
          addPolicy(name, policy), "await")

CreatePolicyResp ==
    /\ pc = "await" /\ op = "create_policy"
    /\ \E rep \in RemoteReplies(Pending) :
          /\ Exchange(rep)
          /\ Finish(CreatePolicyOutcome(args.name,
                       request("PUT", PolicyPrefix \o EncodeURIComponent(args.name),
                               rep.resp)))
    /\ UNCHANGED written

EmptyList == JsonStringify(JArr(<<>>))

\* VaultSecretsOutcome without the catch: the list error leaves the handler
VaultSecretsOutcome_Propagates(r) ==
    IF r.thrown THEN Escaped(r.error)
    ELSE IF r.value.t \in {"undefined", "null"}
    THEN Escaped(TypeError(<<"Cannot read properties of undefined">>))
    ELSE ToolOk(Text("", <<"vault://secrets">>,
                JsonStringify(Nullish(Get(Get(r.value, "data"), "keys"),
                                      JArr(<<>>)))))

\* vault://secrets: JSON.stringify(result.data.keys ?? []), and "[]" on any error
VaultSecretsOutcome(r) ==
    IF r.thrown THEN ToolOk(Text("", <<"vault://secrets">>, EmptyList))
    ELSE IF r.value.t \in {"undefined", "null"}
    THEN ToolOk(Text("", <<"vault://secrets">>, EmptyList))
    ELSE IF Get(r.value, "data").t \in {"undefined", "null"}
    THEN ToolOk(Text("", <<"vault://secrets">>, EmptyList))
    ELSE ToolOk(Text("", <<"vault://secrets">>,
                JsonStringify(Nullish(Get(Get(r.value, "data"), "keys"),
                                      JArr(<<>>)))))

VaultSecretsCall == Start("vault_secrets", NoArgs, list(MetadataRoot), "await")

VaultSecretsResp ==
    /\ pc = "await" /\ op = "vault_secrets"
    /\ \E rep \in RemoteReplies(Pending) :
          /\ Exchange(rep)
          /\ Finish(VaultSecretsOutcome(
                       request("GET", listPath(MetadataRoot) \o <<ListQuery>>,
                               rep.resp)))
    /\ UNCHANGED written

\* vault://policies: no try/catch
VaultPoliciesOutcome(r) ==
    IF r.thrown THEN Escaped(r.error)
    ELSE ToolOk(Text("", <<"vault://policies">>, JsonStringify(r.value)))

VaultPoliciesCall == Start("vault_policies", NoArgs, listPolicies, "await")

VaultPoliciesResp ==
    /\ pc = "await" /\ op = "vault_policies"
    /\ \E rep \in RemoteReplies(Pending) :
          /\ Exchange(rep)
          /\ Finish(VaultPoliciesOutcome(request("GET", PolicyRoot, rep.resp)))
    /\ UNCHANGED written

\* Return with delete's version kept on the client for the next call
Return_KeepsVersion ==
    /\ pc = "done"
    /\ op' = "none"
    /\ args' = NoArgs
    /\ pc' = "idle"
    /\ sent' = <<>>
    /\ received' = <<>>
    /\ outcome' = NoOutcome
    /\ listed' = IF op = "list" THEN [path |-> args.path, req |-> sent[1]] ELSE listed
    /\ UNCHANGED <<baseUrl, token, kv, policies, written, currentVersion>>
\* the result has gone back to the caller; the server takes the next call
Return ==
    /\ pc = "done"
    /\ op' = "none"
    /\ args' = NoArgs
    /\ pc' = "idle"
    /\ sent' = <<>>
    /\ received' = <<>>
    /\ currentVersion' = Undefined
    /\ outcome' = NoOutcome
    /\ listed' = IF op = "list" THEN [path |-> args.path, req |-> sent[1]] ELSE listed
    /\ UNCHANGED <<baseUrl, token, kv, policies, written>>

\* another client of the same remote runs write(secret/data/<path>, {data})
ConcurrentWrite(path, data) ==
    /\ \E rep \in RemoteWrite(path, JObj(<< <<"data", data>> >>)) :
          /\ kv' = rep.kv
          /\ written' = [written EXCEPT ![path] =
                [data |-> data,
                 by |-> IF pc = "await_soft" /\ args.path = path
                        THEN "racer" ELSE "other"]]
    /\ UNCHANGED <<baseUrl, token, policies, op, args, pc, sent, received,
                   currentVersion, outcome, listed>>

\* list(path) called on the client itself: what the call returns or throws
ListOutcome(r) ==
    IF r.thrown THEN Escaped(r.error)
    ELSE [kind |-> "returned", isError |-> FALSE, text |-> JsonStringify(r.value)]

ListCall(path) == Start("list", [NoArgs EXCEPT !.path = path], list(path), "await")

ListResp ==
    /\ pc = "await" /\ op = "list"
    /\ \E rep \in RemoteReplies(Pending) :
          /\ Exchange(rep)
          /\ Finish(ListOutcome(
                       request("GET", listPath(args.path) \o <<ListQuery>>, rep.resp)))
    /\ UNCHANGED written

Next ==
    \/ \E path \in RelPaths, data \in Payloads : CreateSecretCall(path, data)
    \/ CreateSecretResp
    \/ \E path \in RelPaths : ReadSecretCall(path)
    \/ ReadSecretResp
    \/ \E path \in RelPaths : DeleteSecretCall(path)
    \/ DeleteMetadataResp
    \/ DeleteLastResp
    \/ \E name \in PolicyNames, policy \in PolicyTexts : CreatePolicyCall(name, policy)
    \/ CreatePolicyResp
    \/ VaultSecretsCall
    \/ VaultSecretsResp
    \/ VaultPoliciesCall
    \/ VaultPoliciesResp
    \/ Return
    \/ \E path \in RelPaths, data \in Payloads : ConcurrentWrite(path, data)

Spec == Init /\ [][Next]_vars

\* the paths list() is applied to: secret/metadata followed by up to MaxListLen
\* tokens, each a name or a separator
RECURSIVE Suffixes(_)
Suffixes(n) ==
    IF n = 0 THEN {<<>>}
    ELSE Suffixes(n - 1) \cup
         {Append(s, tok) : s \in Suffixes(n - 1), tok \in {"a", "/"}}
ListPaths == {MetadataRoot \o s : s \in Suffixes(MaxListLen)}

NextList ==
    \/ \E path \in ListPaths : ListCall(path)
    \/ ListResp
    \/ Return
    \/ \E path \in RelPaths, data \in Payloads : ConcurrentWrite(path, data)

\* list(p) applied to every bounded path, one call after another
SpecList == Init /\ [][NextList]_vars

\* the paths delete() is applied to: KV v2 data paths, the bare prefix, and
\* paths that do not start with secret/data/
DeletePaths ==
    {DataPrefix \o rel : rel \in RelPaths} \cup
    { DataPrefix,
      <<"secret", "/", "data">>,
      <<"secret", "/", "database", "/", "a">>,
      MetadataPrefix \o <<"a">>,
      <<"a">> }

\* delete(path) called on the client itself: what the call returns or throws
ClientDeleteOutcome(r) ==
    IF r.thrown THEN Escaped(r.error)
    ELSE [kind |-> "returned", isError |-> FALSE, text |-> JsonStringify(r.value)]

ClientDeleteCall(path) ==
    Start("delete", [NoArgs EXCEPT !.path = path], DeleteFirst(path),
          IF DeleteIsKv2(path) THEN "await_meta" ELSE "await")

\* delete(path), metadata read answered: it throws, or the version check throws,
\* or the soft-delete request goes out
ClientDeleteMetadataResp ==
    /\ pc = "await_meta" /\ op = "delete"
    /\ \E rep \in RemoteReplies(Pending) :
          LET r == request("GET", MetadataPrefix \o DeleteRelative(args.path),
                           rep.resp)
              second == DeleteSecond(args.path, r.value)
          IN /\ Exchange(rep)
             /\ IF r.thrown
                THEN Finish(Escaped(r.error))
                ELSE IF second.thrown
                THEN Finish(Escaped(second.error))
                ELSE /\ sent' = Append(sent, second.req)
                     /\ currentVersion' = DeleteCurrentVersion(r.value).value
                     /\ pc' = "await_soft"
                     /\ UNCHANGED <<baseUrl, token, op, args, outcome, listed>>
    /\ UNCHANGED written

\* delete(path), last request answered: the soft delete, or the raw DELETE of a
\* path outside secret/data/
ClientDeleteLastResp ==
    /\ pc \in {"await_soft", "await"} /\ op = "delete"
    /\ \E rep \in RemoteReplies(Pending) :
          /\ Exchange(rep)
          /\ Finish(ClientDeleteOutcome(
                       request(Pending.method, ApiPathOf(Pending.url), rep.resp)))
    /\ UNCHANGED written

NextDelete ==
    \/ \E path \in DeletePaths : ClientDeleteCall(path)
    \/ ClientDeleteMetadataResp
    \/ ClientDeleteLastResp
    \/ Return
    \/ \E path \in RelPaths, data \in Payloads : ConcurrentWrite(path, data)

\* delete(p) applied to every path of DeletePaths, one call after another
SpecDelete == Init /\ [][NextDelete]_vars
\* ================================================================= claims

\* the parsed body of a response that carries a JSON text, else undefined
BodyOf(resp) == IF resp.body.t = "text" THEN resp.body.json ELSE Undefined
\* body.data.<field> of a response, undefined where a level is missing
DataField(resp, field) ==
    IF HasKey(BodyOf(resp), "data") /\ HasKey(Get(BodyOf(resp), "data"), field)
    THEN Get(Get(BodyOf(resp), "data"), field)
    ELSE Undefined
\* the metadata read of the running delete was answered 2xx with current_version v
MetadataReadGave(v) ==
    /\ op = "delete_secret" /\ Len(received) >= 1
    /\ Succeeded(received[1])
    /\ DataField(received[1], "current_version") = JNum(v)
\* the metadata read of the running delete was answered 2xx without a usable version
MetadataReadGaveNoVersion ==
    /\ op = "delete_secret" /\ Len(received) >= 1
    /\ Succeeded(received[1])
    /\ \A v \in 1..(MaxWrites + 1) : DataField(received[1], "current_version") # JNum(v)
\* POST secret/delete/<rel> with body {"versions":[v]}
IsSoftDelete(req, rel, v) ==
    /\ req.method = "POST"
    /\ req.url = baseUrl \o <<"/v1/", "secret", "/", "delete", "/">> \o rel
    /\ req.body = [t |-> "text",
                   json |-> [t |-> "object", v |-> << <<"versions",
                       [t |-> "array", v |-> <<[t |-> "number", v |-> v]>>]>> >>]]
\* DELETE secret/metadata/<rel>
IsMetadataDelete(req, rel) ==
    /\ req.method = "DELETE"
    /\ req.url = baseUrl \o <<"/v1/", "secret", "/", "metadata", "/">> \o rel

\* C1: when the metadata read of delete(secret/data/p) returns a current version v
\* (v >= 1), the operation issues exactly one soft-delete request, POST
\* secret/delete/p with versions == [v], directly after the read, and no DELETE.
C1_SoftDeleteNamesTheVersionRead ==
    \A v \in 1..(MaxWrites + 1) :
        MetadataReadGave(v) =>
            /\ Len(sent) = 2
            /\ IsSoftDelete(sent[2], args.path, v)
            /\ \A i \in 1..Len(sent) : sent[i].method # "DELETE"

\* C1 witness: a delete that read current_version 2 and whose soft delete of
\* version 2 the remote accepted
C1_Witness ==
    /\ MetadataReadGave(2)
    /\ pc = "done" /\ Len(received) = 2 /\ received[2].status = 204
    /\ kv[args.path][2].deleted

\* C2 as stated: a metadata read that succeeds without a usable current_version
\* makes delete issue DELETE secret/metadata/p, and the operation does not fail.
C2_FallsBackToMetadataDelete ==
    (MetadataReadGaveNoVersion /\ pc = "done") =>
        /\ \E i \in 1..Len(sent) : IsMetadataDelete(sent[i], args.path)
        /\ ~outcome.isError

\* C2 amended: a metadata read that succeeds without a usable current_version
\* ends delete(p) there: the read stays the operation's only request (no DELETE
\* secret/metadata/p, no soft delete), the remote keeps every version, and
\* delete_secret returns an error-flagged result; when the body carries data,
\* the error is "No current_version found for secret".
C2_NoVersionEndsInError ==
    MetadataReadGaveNoVersion =>
        /\ pc = "done"
        /\ Len(sent) = 1 /\ sent[1].method = "GET"
        /\ outcome.kind = "result" /\ outcome.isError
        /\ HasKey(BodyOf(received[1]), "data") =>
              outcome.text.tail =
                  [t |-> "string",
                   v |-> <<"Error", ": ", "No current_version found for secret">>]

\* C2 witness: the metadata of a secret that has a version came back without
\* current_version, and delete_secret returned the error
C2_Witness ==
    /\ MetadataReadGaveNoVersion
    /\ received[1].status = 200
    /\ Len(kv[args.path]) >= 1
    /\ outcome.isError

\* the four tools
Tools == {"create_secret", "read_secret", "delete_secret", "create_policy"}
\* the client call of the finished operation failed on its last exchange
ClientCallFailed == pc = "done" /\ Len(received) >= 1 /\ Failed(received[Len(received)])

\* C3 as stated: whenever the client call of create_secret, read_secret,
\* delete_secret or create_policy fails, the handler returns an error-flagged
\* result; the error never leaves the handler as a thrown exception.
C3_FailuresBecomeErrorResults ==
    (op \in Tools /\ ClientCallFailed) =>
        /\ outcome.kind = "result"
        /\ outcome.isError
        /\ outcome.text.tail.t = "string"

\* C4: vault://secrets never throws: on a failed list call, or a 2xx answer
\* without a body, it returns "[]"; on a 2xx answer with a body it returns the
\* keys the remote reported, or "[]" when there is no keys field.
C4_SecretsListingNeverThrows ==
    (op = "vault_secrets" /\ pc = "done") =>
        /\ outcome.kind = "result" /\ ~outcome.isError
        /\ Len(sent) = 1 /\ Len(received) = 1
        /\ outcome.text.tail =
              IF Succeeded(received[1])
                 /\ DataField(received[1], "keys").t = "array"
              THEN [t |-> "text", json |-> DataField(received[1], "keys")]
              ELSE [t |-> "text", json |-> [t |-> "array", v |-> <<>>]]

\* C4 witness: the metadata root of a fresh mount answered 404 and the resource
\* returned "[]"
C4_Witness ==
    /\ op = "vault_secrets" /\ pc = "done"
    /\ received[1].net = "ok" /\ received[1].status = 404
    /\ TotalVersions = 0
    /\ outcome.text.tail = [t |-> "text", json |-> [t |-> "array", v |-> <<>>]]

\* kv[key] with version v marked deleted
MarkedDeleted(versions, v) ==
    [i \in 1..Len(versions) |->
        IF i = v THEN [versions[i] EXCEPT !.deleted = TRUE] ELSE versions[i]]

\* C5: delete is two round trips with nothing in between that excludes a writer:
\* while the soft delete is pending another client's write of the same path is
\* accepted, the operation leaves that point only through the remote's answer to
\* the soft delete of the version read in step 1 (no lock, no re-check), and an
\* accepted soft delete marks that version even when it is no longer the latest.
C5_SoftDeleteUsesTheVersionReadEarlier ==
    /\ [](pc = "await_soft" =>
            /\ IsSoftDelete(Pending, args.path, currentVersion.v)
            /\ TotalVersions < MaxWrites =>
                  \A d \in Payloads : ENABLED ConcurrentWrite(args.path, d))
    /\ [][(pc = "await_soft" /\ pc' # "await_soft") =>
            /\ pc' = "done"
            /\ sent' = sent
            /\ Len(received') = 2
            /\ received'[2].status = 204 =>
                  kv' = [kv EXCEPT ![args.path] = MarkedDeleted(@, currentVersion.v)]
         ]_vars

\* C5 witness: delete read version 1, another client wrote version 2 before the
\* soft delete, and the soft delete marked version 1 while version 2 is current
C5_Witness ==
    /\ op = "delete_secret" /\ pc = "done"
    /\ Len(received) = 2 /\ received[2].status = 204
    /\ currentVersion = JNum(1)
    /\ written[args.path].by = "racer"
    /\ Len(kv[args.path]) = 2
    /\ kv[args.path][1].deleted /\ ~kv[args.path][2].deleted

\* the path list(p) queried: its URL without base address, /v1/ and ?list=true
QueriedPath(req) == SubSeq(req.url, Len(baseUrl) + 2, Len(req.url) - 1)
\* the request of list(p) is a GET of <path>?list=true where path is p without
\* exactly one trailing separator
StripsOneSeparator(req, p) ==
    /\ req.method = "GET"
    /\ req.url = baseUrl \o <<"/v1/">> \o QueriedPath(req) \o <<"?list=true">>
    /\ \/ QueriedPath(req) = p /\ p[Len(p)] # "/"
       \/ QueriedPath(req) \o <<"/">> = p
\* the running call is list(p + "/") and the call before it was list(p)
ListedWithSeparatorAppended ==
    /\ op = "list" /\ pc # "idle"
    /\ listed.path # <<>>
    /\ args.path = listed.path \o <<"/">>
SameRequest(r1, r2) == r1.method = r2.method /\ r1.url = r2.url

\* C6 as stated: list(p) strips exactly one trailing separator, and list(p) and
\* list(p + "/") issue the same request for every p, also when p itself ends
\* with a separator.
C6_ListIdempotentForEveryPath ==
    /\ (op = "list" /\ pc # "idle") => StripsOneSeparator(sent[1], args.path)
    /\ ListedWithSeparatorAppended => SameRequest(sent[1], listed.req)

\* C6 amended: list(p) strips exactly one trailing separator, and list(p) and
\* list(p + "/") issue the same request for every p that does not itself end
\* with a separator; when p ends with one, list(p + "/") queries p, which
\* list(p) does not.
C6_ListIdempotentWithoutTrailingSeparator ==
    /\ (op = "list" /\ pc # "idle") => StripsOneSeparator(sent[1], args.path)
    /\ ListedWithSeparatorAppended =>
          IF listed.path[Len(listed.path)] # "/"
          THEN SameRequest(sent[1], listed.req)
          ELSE /\ QueriedPath(sent[1]) = listed.path
               /\ ~SameRequest(sent[1], listed.req)

\* C6 witness: list(secret/metadata/a) and then list(secret/metadata/a/) were
\* answered, and both fetched the same URL
C6_Witness ==
    /\ ListedWithSeparatorAppended /\ pc = "done"
    /\ listed.path = <<"secret", "/", "metadata", "/", "a">>
    /\ SameRequest(sent[1], listed.req)

\* C7: create_secret(p, d) sends POST secret/data/p with body {data: d},
\* read_secret(p) sends GET secret/data/p without a body, and a read the remote
\* answers with 200 returns the payload of the last write to p the remote had
\* accepted when it answered.
C7_ReadReturnsWhatWasWritten ==
    /\ []((op = "create_secret" /\ pc # "idle") =>
            /\ Len(sent) = 1
            /\ sent[1].method = "POST"
            /\ sent[1].url = baseUrl \o <<"/v1/", "secret", "/", "data", "/">>
                                     \o args.path
            /\ sent[1].body =
                  [t |-> "text",
                   json |-> [t |-> "object", v |-> << <<"data", args.data>> >>]])
    /\ []((op = "read_secret" /\ pc # "idle") =>
            /\ sent[1].method = "GET"
            /\ sent[1].url = baseUrl \o <<"/v1/", "secret", "/", "data", "/">>
                                     \o args.path
            /\ sent[1].body = Undefined)
    /\ [][(op = "read_secret" /\ pc = "await" /\ pc' = "done"
             /\ received'[1].net = "ok" /\ received'[1].status = 200) =>
            /\ outcome'.kind = "result" /\ ~outcome'.isError
            /\ outcome'.text.prefix = "Secret read at: "
            /\ outcome'.text.tail = [t |-> "text", json |-> written[args.path].data]
         ]_vars

\* C7 witness: this server wrote {username: "demo"} to a path, nobody wrote to it
\* since, and read_secret of the path returned {username: "demo"}
C7_Witness ==
    /\ op = "read_secret" /\ pc = "done" /\ ~outcome.isError
    /\ written[args.path].by = "server"
    /\ written[args.path].data = JObj(<< <<"username", JStr(<<"demo">>)>> >>)
    /\ outcome.text.tail = [t |-> "text", json |-> written[args.path].data]

\* C8: every request() is one fetch, answered once and never repeated: the
\* operations with one client call have issued exactly one fetch, delete one or
\* two, a failed exchange is the last fetch of its operation, and no fetch of an
\* operation equals an earlier one.
C8_OneFetchPerRequestNoRetry ==
    /\ Len(received) <= Len(sent) /\ Len(sent) <= Len(received) + 1
    /\ pc = "done" => Len(received) = Len(sent)
    /\ (pc # "idle" /\ op \in {"create_secret", "read_secret", "create_policy",
                               "vault_secrets", "vault_policies"}) => Len(sent) = 1
    /\ op = "delete_secret" => Len(sent) \in {1, 2}
    /\ \A i \in 1..Len(received) :
          Failed(received[i]) => (i = Len(sent) /\ pc = "done")
    /\ \A i, j \in 1..Len(sent) : i # j => sent[i] # sent[j]

\* C8 witness: a delete whose soft delete failed ended after its two fetches
C8_Witness ==
    /\ op = "delete_secret" /\ pc = "done"
    /\ Len(sent) = 2 /\ Len(received) = 2
    /\ received[2].status = 403

\* the string form of the error request() throws for the failed response resp to
\* GET secret/metadata/<rel>
MetadataReadError(rel, resp) ==
    IF resp.net = "failed" THEN <<"TypeError", ": ", "fetch failed">>
    ELSE <<"Error", ": ", "GET", " ", "secret", "/", "metadata", "/">> \o rel
         \o <<" failed with ", ToString(resp.status)>>

\* C9: in delete(p) the soft delete is issued only after the metadata read
\* succeeded; a failed metadata read ends the operation with that read as its
\* only request, leaves the remote as it was, and reaches the caller as the
\* error-flagged result carrying the error's string form.
C9_FailedMetadataReadAborts ==
    /\ [](op = "delete_secret" =>
            /\ Len(sent) >= 2 => Succeeded(received[1])
            /\ (Len(received) >= 1 /\ Failed(received[1])) =>
                  /\ pc = "done" /\ Len(sent) = 1
                  /\ outcome.kind = "result" /\ outcome.isError
                  /\ outcome.text.prefix = "Failed to delete secret at: "
                  /\ outcome.text.tail.t = "string"
                  /\ StartsWith(outcome.text.tail.v,
                                MetadataReadError(args.path, received[1])))
    /\ [][(op = "delete_secret" /\ Len(received) = 0 /\ Len(received') = 1
             /\ Failed(received'[1])) =>
            (kv' = kv /\ policies' = policies)]_vars

\* C9 witness: the metadata read of a secret that has a version was refused with
\* 403 and delete_secret ended with the error after that one request
C9_Witness ==
    /\ op = "delete_secret" /\ pc = "done"
    /\ Len(sent) = 1 /\ received[1].status = 403
    /\ Len(kv[args.path]) >= 1
    /\ outcome.isError

\* C10: delete_secret sends only the metadata GET and the soft-delete POST of its
\* path, never a DELETE, and no exchange of it removes a version or changes any
\* version other than the one its soft-delete request names, which keeps its data.
C10_DeleteSecretKeepsOtherVersions ==
    /\ [](op = "delete_secret" =>
            \A i \in 1..Len(sent) :
                \/ /\ i = 1 /\ sent[i].method = "GET"
                   /\ sent[i].url = baseUrl
                        \o <<"/v1/", "secret", "/", "metadata", "/">> \o args.path
                \/ /\ i = 2 /\ sent[i].method = "POST"
                   /\ sent[i].url = baseUrl
                        \o <<"/v1/", "secret", "/", "delete", "/">> \o args.path)
    /\ [][(op = "delete_secret" /\ received' # received) =>
            \A k \in RelPaths :
                /\ Len(kv'[k]) = Len(kv[k])
                /\ \A i \in 1..Len(kv[k]) :
                      kv'[k][i] # kv[k][i] =>
                          /\ k = args.path
                          /\ Len(sent) = 2 /\ IsSoftDelete(sent[2], k, i)
                          /\ kv'[k][i].data = kv[k][i].data
         ]_vars

\* C10 witness: delete_secret soft-deleted version 2 of a secret and version 1
\* is still there, not deleted
C10_Witness ==
    /\ op = "delete_secret" /\ pc = "done"
    /\ Len(received) = 2 /\ received[2].status = 204
    /\ Len(kv[args.path]) = 2
    /\ kv[args.path][2].deleted /\ ~kv[args.path][1].deleted

\* the path segments encodeURIComponent gives for the policy names in use
PercentEncoded(name) ==
    IF name = <<"app">> THEN <<"app">>
    ELSE <<"weird", "%20", "name", "%2F", "with", "%3A", "chars">>

\* C11: create_policy sends one PUT to sys/policies/acl/<encoded name> whose body
\* is {"policy": policyText}; its exchange leaves the documents under every other
\* name and the secrets as they are; once the remote answers 204 the document
\* under the name is policyText whatever was stored before; and when the document
\* already was policyText (the same call applied again) the policy store is
\* unchanged by the exchange.
C11_PolicyPutReplacesAndIsIdempotent ==
    /\ [](op = "create_policy" =>
            /\ Len(sent) = 1
            /\ sent[1].method = "PUT"
            /\ sent[1].url = baseUrl
                 \o <<"/v1/", "sys", "/", "policies", "/", "acl", "/">>
                 \o PercentEncoded(args.name)
            /\ sent[1].body = [t |-> "text",
                   json |-> [t |-> "object",
                             v |-> << <<"policy",
                                        [t |-> "string", v |-> args.policy]>> >>]])
    /\ [][(op = "create_policy" /\ pc = "await" /\ pc' = "done") =>
            /\ kv' = kv
            /\ \A n \in PolicyNames \ {args.name} : policies'[n] = policies[n]
            /\ policies'[args.name] \in {policies[args.name], args.policy}
            /\ (Succeeded(received'[1]) => policies'[args.name] = args.policy)
            /\ (policies[args.name] = args.policy => policies' = policies)
         ]_vars

\* C11 witness: create_policy for the name that needs encoding was answered 204
\* and its text is stored under that name while the other name keeps a
\* different document
C11_Witness ==
    /\ op = "create_policy" /\ pc = "done"
    /\ args.name = <<"weird", " ", "name", "/", "with", ":", "chars">>
    /\ args.policy = <<"hcl2">>
    /\ Len(received) = 1 /\ received[1].status = 204
    /\ ~outcome.isError
    /\ policies[args.name] = <<"hcl2">>
    /\ policies[<<"app">>] = <<"hcl1">>

\* C12: the client's base address and token always equal the values it was
\* constructed with; between operations nothing else is held (no request, no
\* response, no version, no result of the operation before); every delete_secret
\* starts with its own metadata read and with no version, and the version its
\* soft delete carries is the one that read returned in the same operation; a
\* finished operation, failed or not, can always return, and after it every
\* operation can be started again.
C12_NothingCarriesOverBetweenOperations ==
    /\ [](/\ baseUrl = <<"http://vault:8200">>
          /\ token = <<"hvs.token">>)
    /\ [](pc = "idle" =>
            /\ op = "none"
            /\ sent = <<>> /\ received = <<>>
            /\ currentVersion = [t |-> "undefined"]
            /\ args = [path |-> <<>>, data |-> [t |-> "undefined"],
                       name |-> <<>>, policy |-> <<>>]
            /\ outcome.kind = "none")
    /\ [](pc = "done" => ENABLED Return)
    /\ [](pc = "idle" =>
            /\ \A path \in RelPaths :
                  /\ ENABLED ReadSecretCall(path)
                  /\ ENABLED DeleteSecretCall(path)
                  /\ \A data \in Payloads : ENABLED CreateSecretCall(path, data)
            /\ \A name \in PolicyNames, policy \in PolicyTexts :
                  ENABLED CreatePolicyCall(name, policy)
            /\ ENABLED VaultSecretsCall
            /\ ENABLED VaultPoliciesCall)
    /\ [][(pc = "idle" /\ op' = "delete_secret") =>
            /\ sent' = <<[method |-> "GET",
                          url |-> <<"http://vault:8200", "/v1/",
                                    "secret", "/", "metadata", "/">> \o args'.path,
                          token |-> <<"hvs.token">>,
                          body |-> [t |-> "undefined"]]>>
            /\ received' = <<>>
            /\ currentVersion' = [t |-> "undefined"]
         ]_vars
    /\ [][(op = "delete_secret" /\ pc = "await_meta" /\ pc' = "await_soft") =>
            /\ Len(received') = 1 /\ Len(sent') = 2
            /\ DataField(received'[1], "current_version").t = "number"
            /\ currentVersion' = DataField(received'[1], "current_version")
            /\ IsSoftDelete(sent'[2], args.path,
                            DataField(received'[1], "current_version").v)
         ]_vars

\* C12 witness: a delete_secret whose own metadata read gave version 2 has sent
\* the soft delete of version 2, on a secret whose version 1 an earlier
\* delete_secret soft-deleted
C12_Witness ==
    /\ op = "delete_secret" /\ pc = "await_soft"
    /\ Len(kv[args.path]) = 2
    /\ kv[args.path][1].deleted /\ ~kv[args.path][2].deleted
    /\ DataField(received[1], "current_version") = [t |-> "number", v |-> 2]
    /\ Len(sent) = 2 /\ IsSoftDelete(sent[2], args.path, 2)

\* the error a finished handler surfaced: String(err) in its error result, or
\* the error that left it
SurfacedError == IF outcome.kind = "thrown" THEN outcome.text ELSE outcome.text.tail
\* what follows the base message for the error bodies the remote sends: the
\* 403 body lists one error, the 400 body two, the 404 body none, and the 500
\* body is not JSON
RemoteErrorTail(status) ==
    IF status = 403 THEN <<": ", "permission denied">>
    ELSE IF status = 400 THEN <<": ", "invalid", "; ", "bad request">>
    ELSE <<>>

\* C13: when the last request of a handler is answered with a non-2xx status, the
\* error it ends with reads "<METHOD> <path> failed with <status>", followed by
\* ": " and the remote's errors joined with "; " when the body lists any, and by
\* nothing when the body lists none or cannot be parsed (vault_secrets, which
\* swallows the error, aside); and a request answered 204 gives the handler an
\* absent result, which it reports as a success.
C13_FailureMessageCarriesStatusAndErrors ==
    (pc = "done" /\ Len(received) = Len(sent)) =>
        LET req == sent[Len(sent)]
            resp == received[Len(received)]
        IN  /\ (/\ resp.net = "ok"
                /\ resp.status \notin 200..299
                /\ op # "vault_secrets") =>
                   /\ outcome.isError \/ outcome.kind = "thrown"
                   /\ SurfacedError =
                        [t |-> "string",
                         v |-> <<"Error", ": ", req.method, " ">>
                               \o SubSeq(req.url, 3, Len(req.url))
                               \o <<" failed with ",
                                    CASE resp.status = 400 -> "400"
                                      [] resp.status = 403 -> "403"
                                      [] resp.status = 404 -> "404"
                                      [] resp.status = 500 -> "500">>
                               \o RemoteErrorTail(resp.status)]
            /\ (/\ resp.net = "ok" /\ resp.status = 204
                /\ \/ op = "create_policy"
                   \/ op = "delete_secret" /\ Len(received) = 2) =>
                   /\ outcome.kind = "result" /\ ~outcome.isError
                   /\ outcome.text.tail = [t |-> "undefined"]

\* C13 witness: read_secret of "a" was refused with 403 and "permission denied",
\* and its error result carries the method, the path, the status and that message
C13_Witness ==
    /\ op = "read_secret" /\ pc = "done"
    /\ received[1].status = 403
    /\ outcome.isError
    /\ outcome.text.tail.v =
         <<"Error", ": ", "GET", " ", "secret", "/", "data", "/", "a",
           " failed with ", "403", ": ", "permission denied">>

\* C14: delete(path) picks its branch by the prefix secret/data/ alone. A path
\* without the prefix gets exactly one request, a DELETE of the path as given,
\* and neither a metadata read nor a soft delete; a path with the prefix never
\* gets a DELETE, and its metadata read and its soft delete name the same
\* relative path, the supplied path without the prefix.
C14_DeleteBranchesOnThePrefixOnly ==
    op = "delete" =>
        LET p == args.path
            prefixed == Len(p) >= 4 /\ SubSeq(p, 1, 4) = <<"secret", "/", "data", "/">>
            rel == SubSeq(p, 5, Len(p))
        IN  IF prefixed
            THEN /\ \A i \in 1..Len(sent) : sent[i].method # "DELETE"
                 /\ Len(sent) \in {1, 2}
                 /\ sent[1].method = "GET"
                 /\ sent[1].url = baseUrl
                      \o <<"/v1/", "secret", "/", "metadata", "/">> \o rel
                 /\ Len(sent) = 2 =>
                      /\ sent[2].method = "POST"
                      /\ sent[2].url = baseUrl
                           \o <<"/v1/", "secret", "/", "delete", "/">> \o rel
            ELSE /\ Len(sent) = 1
                 /\ sent[1].method = "DELETE"
                 /\ sent[1].url = baseUrl \o <<"/v1/">> \o p
                 /\ sent[1].body = [t |-> "undefined"]
                 /\ currentVersion = [t |-> "undefined"]

\* C14 witness: delete("secret/metadata/a") sent the one raw DELETE, the remote
\* answered 204 and the secret that had been written is gone with all versions
C14_Witness ==
    /\ op = "delete" /\ pc = "done"
    /\ args.path = <<"secret", "/", "metadata", "/", "a">>
    /\ Len(sent) = 1 /\ sent[1].method = "DELETE"
    /\ Len(received) = 1 /\ received[1].status = 204
    /\ outcome.kind = "returned"
    /\ written[<<"a">>].by # "nobody"
    /\ kv[<<"a">>] = <<>>

\* the metadata read of the running delete(p) was answered 2xx with a body whose
\* data has no current_version or has current_version 0
MetadataReadGaveFalsyVersion ==
    /\ op = "delete" /\ Len(received) >= 1
    /\ sent[1].method = "GET"
    /\ received[1].net = "ok" /\ received[1].status = 200
    /\ HasKey(BodyOf(received[1]), "data")
    /\ DataField(received[1], "current_version")
         \in {[t |-> "undefined"], [t |-> "number", v |-> 0]}

\* C15: when the metadata read of delete(p) returns a current_version that is
\* absent or 0, delete ends there by throwing "No current_version found for
\* secret": the read is its only request (no soft delete, no DELETE) and the
\* exchange leaves secrets and policies as they were; and the one version that
\* any soft-delete request carries is a number of at least 1.
C15_FalsyVersionSendsNothing ==
    /\ [](MetadataReadGaveFalsyVersion =>
            /\ pc = "done"
            /\ Len(sent) = 1
            /\ outcome.kind = "thrown"
            /\ outcome.text =
                 [t |-> "string",
                  v |-> <<"Error", ": ", "No current_version found for secret">>])
    /\ [][(op = "delete" /\ pc = "await_meta" /\ pc' = "done") =>
            kv' = kv /\ policies' = policies]_vars
    /\ [](\A i \in 1..Len(sent) :
            (/\ sent[i].method = "POST"
             /\ Len(sent[i].url) >= 6
             /\ SubSeq(sent[i].url, 2, 6) = <<"/v1/", "secret", "/", "delete", "/">>) =>
                LET versions == Get(BodyOf(sent[i]), "versions")
                IN /\ versions.t = "array" /\ Len(versions.v) = 1
                   /\ versions.v[1].t = "number" /\ versions.v[1].v >= 1)

\* C15 witness: delete("secret/data/a") read current_version 0 while another
\* secret is stored, and ended with the error after that one request
C15_Witness ==
    /\ MetadataReadGaveFalsyVersion
    /\ args.path = <<"secret", "/", "data", "/", "a">>
    /\ DataField(received[1], "current_version") = [t |-> "number", v |-> 0]
    /\ pc = "done" /\ Len(sent) = 1
    /\ outcome.kind = "thrown"
    /\ Len(kv[<<"b">>]) >= 1

====
